---- MODULE Spec2Model ----
(***************************************************************************)
(* The Project Repository of crud-next-radix-sqlite: one table of          *)
(* projects behind list / getById / create / update / delete, in the two   *)
(* driver variants the sources carry (better-sqlite3, synchronous, 0/1     *)
(* booleans; postgres.js, asynchronous, native booleans, RETURNING).       *)
(* Every repository call is one action; `call`, `before` and `result`      *)
(* record the last call, the table it found and what it gave back.         *)
(***************************************************************************)
EXTENDS FiniteSets, Integers, Sequences, TLC

\* ---------------------------------------------------------------- bounds
MaxTime    == 1   \* the store clock runs 0..MaxTime
MaxId      == 4   \* the id sequence hands out 1..MaxId
MaxUpdates == 1   \* update calls issued

\* ------------------------------------------------------------ the schema
Variants == {"sqlite", "postgres"}

Categories == {"infrastructure", "product", "marketing", "internal"}

Fields == {"name", "description", "category", "isPublic"}

\* The rows initializeDatabase inserts into an empty table.
SeedProjects ==
  << [name |-> "Project Alpha",
      description |-> "Next-generation frontend infrastructure project designed to scale with multi-tenant architectures and Radix UI design systems.",
      category |-> "infrastructure", isPublic |-> TRUE],
     [name |-> "Beta Launch",
      description |-> "Product development initiative focused on delivering core features for our upcoming beta release.",
      category |-> "product", isPublic |-> FALSE],
     [name |-> "Internal Research",
      description |-> "Research and development project exploring new technologies and architectural patterns.",
      category |-> "internal", isPublic |-> FALSE] >>

\* ------------------------------------------------------- inputs explored
\* create(input): two valid inputs and one whose category is outside the
\* closed set (application validation bypassed).
CreateInputs ==
  { [name |-> "Gamma", description |-> "A third project", category |-> c, isPublic |-> p] :
      c \in {"marketing"}, p \in BOOLEAN }
  \cup
  { [name |-> "Gamma", description |-> "A third project", category |-> "bogus", isPublic |-> TRUE] }

\* update(id, partialInput): partialInput is a function whose domain is the
\* set of supplied fields (a field outside the domain is `undefined`).
\* Explored: no field, each field alone, several fields, and a category
\* outside the closed set.
UpdateInputs ==
  { [f \in {} |-> 0],
    [f \in {"name"} |-> "Renamed"],
    [f \in {"description"} |-> "A new description"],
    [f \in {"category"} |-> "marketing"],
    [f \in {"category"} |-> "bogus"],
    [f \in {"isPublic"} |-> TRUE],
    [f \in {"isPublic"} |-> FALSE],
    [name |-> "Renamed", category |-> "product", isPublic |-> TRUE] }

CallIds == 1 .. MaxId

\* ----------------------------------------------------------------- state
VARIABLES
  variant,      \* which driver variant of the repository is running
  initialized,  \* the initialization at module load has completed
  rows,         \* the projects table: a set of rows
  seq,          \* the id sequence (AUTOINCREMENT / SERIAL): last value handed out
  now,          \* the store clock
  updates,      \* number of update calls issued so far
  call,         \* the last repository call: [op, id, input, at]
  before,       \* the table as that call found it
  result,       \* what that call returned or threw: [kind, value]
  deleted       \* ids for which delete has returned true

vars == <<variant, initialized, rows, seq, now, updates, call, before, result, deleted>>

\* ------------------------------------------------------ result values
Found(project) == [kind |-> "project", value |-> project]
NotFound       == [kind |-> "null", value |-> 0]
Bool(b)        == [kind |-> "boolean", value |-> b]
Listing(ps)    == [kind |-> "list", value |-> ps]
StorageError   == [kind |-> "error", value |-> "StorageError"]
CreateFailed   == [kind |-> "error", value |-> "Failed to create project"]
NoResult       == [kind |-> "none", value |-> 0]
NoCall         == [op |-> "none", id |-> 0, input |-> [f \in {} |-> 0], at |-> 0]

\* --------------------------------------------------- the storage layer
\* isPublic as the table holds it: INTEGER 0/1 (sqlite), BOOLEAN (postgres).
EncodeBoolean(v, b) == IF v = "sqlite" THEN (IF b THEN 1 ELSE 0) ELSE b

\* Mutant: the stored integer compared with `true`, which it never equals.
convertToBooleanAgainstTrue(project) == [project EXCEPT !.isPublic = FALSE]

\* convertToBoolean: SQLite integer boolean to JavaScript boolean.
convertToBoolean(project) == [project EXCEPT !.isPublic = (project.isPublic = 1)]

\* A row as the repository hands it to its caller.
Decode(v, row) == IF v = "sqlite" THEN convertToBoolean(row) ELSE row

\* Mutant: the table created without the CHECK on category.
CheckConstraintsWithoutCategory(v, row) ==
  v = "sqlite" => row.isPublic \in {0, 1}

\* CHECK(category IN (...)), and for sqlite CHECK(isPublic IN (0, 1)).
CheckConstraints(v, row) ==
  /\ row.category \in Categories
  /\ v = "sqlite" => row.isPublic \in {0, 1}

HasId(rs, id) == \E r \in rs : r.id = id
RowOf(rs, id) == CHOOSE r \in rs : r.id = id

\* The id the sequence hands out next; a value once handed out is never
\* handed out again (AUTOINCREMENT / SERIAL).
nextval(s) == s + 1

\* Mutant: ids computed as COUNT(*) + 1 on a table without a primary key.
InsertRowCountingIds(v, rs, s, at, name, description, category, isPublicStored) ==
  LET row == [id |-> Cardinality(rs) + 1, name |-> name, description |-> description,
              category |-> category, isPublic |-> isPublicStored,
              createdAt |-> at, updatedAt |-> at]
  IN IF CheckConstraints(v, row)
       THEN [ok |-> TRUE, rows |-> rs \cup {row}, seq |-> nextval(s), id |-> row.id]
       ELSE [ok |-> FALSE, rows |-> rs,
             seq |-> IF v = "postgres" THEN nextval(s) ELSE s, id |-> 0]

\* Mutant: a plain INTEGER PRIMARY KEY, which hands out the largest id in
\* the table plus one and so reuses the id of a deleted last row.
InsertRowReusingIds(v, rs, s, at, name, description, category, isPublicStored) ==
  LET largest == IF rs = {} THEN 0
                 ELSE (CHOOSE r \in rs : \A x \in rs : r.id >= x.id).id
      row == [id |-> largest + 1, name |-> name, description |-> description,
              category |-> category, isPublic |-> isPublicStored,
              createdAt |-> at, updatedAt |-> at]
  IN IF CheckConstraints(v, row) /\ ~HasId(rs, row.id)
       THEN [ok |-> TRUE, rows |-> rs \cup {row}, seq |-> nextval(s), id |-> row.id]
       ELSE [ok |-> FALSE, rows |-> rs,
             seq |-> IF v = "postgres" THEN nextval(s) ELSE s, id |-> 0]

\* INSERT INTO projects (name, description, category, isPublic) VALUES (...):
\* id from the sequence, createdAt and updatedAt from the column defaults,
\* both the clock reading of the one statement.  A violated CHECK or PRIMARY
\* KEY aborts the statement; postgres has consumed the sequence value by
\* then, sqlite has not.
InsertRow(v, rs, s, at, name, description, category, isPublicStored) ==
  LET row == [id |-> nextval(s), name |-> name, description |-> description,
              category |-> category, isPublic |-> isPublicStored,
              createdAt |-> at, updatedAt |-> at]
  IN IF CheckConstraints(v, row) /\ ~HasId(rs, row.id)
       THEN [ok |-> TRUE, rows |-> rs \cup {row}, seq |-> nextval(s), id |-> row.id]
       ELSE [ok |-> FALSE, rows |-> rs,
             seq |-> IF v = "postgres" THEN nextval(s) ELSE s, id |-> 0]

\* Mutant: the missing row is dereferenced instead of mapped to null.
getProjectByIdThrowing(v, rs, id) ==
  IF HasId(rs, id) THEN Found(Decode(v, RowOf(rs, id)))
  ELSE [kind |-> "error", value |-> "TypeError"]

\* SELECT * FROM projects WHERE id = ?
getProjectById(v, rs, id) ==
  IF HasId(rs, id) THEN Found(Decode(v, RowOf(rs, id))) ELSE NotFound

\* Mutant: ORDER BY updatedAt ASC.
RECURSIVE OrderByUpdatedAtAsc(_)
OrderByUpdatedAtAsc(rs) ==
  IF rs = {} THEN { <<>> }
  ELSE UNION { { <<r>> \o s : s \in OrderByUpdatedAtAsc(rs \ {r}) } :
               r \in { x \in rs : \A y \in rs : x.updatedAt <= y.updatedAt } }

\* SELECT * FROM projects ORDER BY updatedAt DESC: every order of the rows
\* in which updatedAt never increases (rows with equal updatedAt come in
\* any order).
RECURSIVE OrderByUpdatedAtDesc(_)
OrderByUpdatedAtDesc(rs) ==
  IF rs = {} THEN { <<>> }
  ELSE UNION { { <<r>> \o s : s \in OrderByUpdatedAtDesc(rs \ {r}) } :
               r \in { x \in rs : \A y \in rs : x.updatedAt >= y.updatedAt } }

\* getAllProjects: the rows in one such order, each converted.
getAllProjects(v, rs) ==
  { [i \in DOMAIN s |-> Decode(v, s[i])] : s \in OrderByUpdatedAtDesc(rs) }

\* createProject: INSERT, then (sqlite) getProjectById(lastInsertRowid) or
\* (postgres) RETURNING *.
createProject(v, rs, s, at, input) ==
  LET ins == InsertRow(v, rs, s, at, input.name, input.description,
                       input.category, EncodeBoolean(v, input.isPublic))
  IN IF ~ins.ok
       THEN [rows |-> ins.rows, seq |-> ins.seq, result |-> StorageError]
       ELSE IF v = "sqlite"
         THEN LET newProject == getProjectById(v, ins.rows, ins.id)
              IN [rows |-> ins.rows, seq |-> ins.seq,
                  result |-> IF newProject = NotFound THEN CreateFailed ELSE newProject]
         ELSE [rows |-> ins.rows, seq |-> ins.seq,
               result |-> Found(RowOf(ins.rows, ins.id))]

\* Mutant: isPublic written as `input.isPublic ? 1 : 0` whether or not it
\* was supplied.
ApplyUpdatesCoercingIsPublic(v, row, input, at) ==
  [row EXCEPT
     !.name        = IF "name" \in DOMAIN input THEN input.name ELSE @,
     !.description = IF "description" \in DOMAIN input THEN input.description ELSE @,
     !.category    = IF "category" \in DOMAIN input THEN input.category ELSE @,
     !.isPublic    = IF "isPublic" \in DOMAIN input
                       THEN EncodeBoolean(v, input.isPublic) ELSE EncodeBoolean(v, FALSE),
     !.updatedAt   = at]

\* Mutant: the update refreshes createdAt along with updatedAt.
ApplyUpdatesTouchingCreatedAt(v, row, input, at) ==
  [row EXCEPT
     !.name        = IF "name" \in DOMAIN input THEN input.name ELSE @,
     !.description = IF "description" \in DOMAIN input THEN input.description ELSE @,
     !.category    = IF "category" \in DOMAIN input THEN input.category ELSE @,
     !.isPublic    = IF "isPublic" \in DOMAIN input
                       THEN EncodeBoolean(v, input.isPublic) ELSE @,
     !.createdAt   = at,
     !.updatedAt   = at]

\* A SET clause that writes a default category when none is supplied.
ApplyUpdatesDefaultingCategory(v, row, input, at) ==
  [row EXCEPT
     !.name        = IF "name" \in DOMAIN input THEN input.name ELSE @,
     !.description = IF "description" \in DOMAIN input THEN input.description ELSE @,
     !.category    = IF "category" \in DOMAIN input THEN input.category ELSE "internal",
     !.isPublic    = IF "isPublic" \in DOMAIN input
                       THEN EncodeBoolean(v, input.isPublic) ELSE @,
     !.updatedAt   = at]

\* The SET clause applied to one row: the supplied fields, then updatedAt.
ApplyUpdates(v, row, input, at) ==
  [row EXCEPT
     !.name        = IF "name" \in DOMAIN input THEN input.name ELSE @,
     !.description = IF "description" \in DOMAIN input THEN input.description ELSE @,
     !.category    = IF "category" \in DOMAIN input THEN input.category ELSE @,
     !.isPublic    = IF "isPublic" \in DOMAIN input
                       THEN EncodeBoolean(v, input.isPublic) ELSE @,
     !.updatedAt   = at]

\* An UPDATE that matches only a row never updated before (an optimistic
\* version check): a later writer's statement changes nothing.
UpdateRowIfNeverUpdated(v, rs, id, input, at) ==
  IF ~HasId(rs, id) \/ RowOf(rs, id).updatedAt # RowOf(rs, id).createdAt
    THEN [ok |-> TRUE, rows |-> rs]
    ELSE [ok |-> TRUE,
          rows |-> (rs \ {RowOf(rs, id)}) \cup {ApplyUpdates(v, RowOf(rs, id), input, at)}]

\* An UPDATE that inserts the row when no row has the id (an upsert).
UpdateRowUpserting(v, rs, id, input, at) ==
  LET blank == [id |-> id, name |-> "", description |-> "", category |-> "internal",
                isPublic |-> EncodeBoolean(v, FALSE), createdAt |-> at, updatedAt |-> at]
      old == IF HasId(rs, id) THEN RowOf(rs, id) ELSE blank
  IN [ok |-> TRUE, rows |-> { r \in rs : r.id # id } \cup {ApplyUpdates(v, old, input, at)}]

\* UPDATE projects SET ... WHERE id = ?: the matched row is replaced; a
\* CHECK violated by the new row aborts the statement.
UpdateRow(v, rs, id, input, at) ==
  IF ~HasId(rs, id)
    THEN [ok |-> TRUE, rows |-> rs]
    ELSE LET new == ApplyUpdates(v, RowOf(rs, id), input, at)
         IN IF CheckConstraints(v, new)
              THEN [ok |-> TRUE, rows |-> (rs \ {RowOf(rs, id)}) \cup {new}]
              ELSE [ok |-> FALSE, rows |-> rs]

\* The SET clauses / keys the update builds: the supplied fields plus the
\* timestamp, which is always appended.
UpdateClauses(input) == DOMAIN input \cup {"updatedAt"}

\* updateProject, sqlite variant: returns early only when there is no
\* clause at all; otherwise UPDATE, then getProjectById.
updateProjectSqlite(rs, id, input, at) ==
  IF Cardinality(UpdateClauses(input)) = 0
    THEN [rows |-> rs, result |-> getProjectById("sqlite", rs, id)]
    ELSE LET upd == UpdateRow("sqlite", rs, id, input, at)
         IN IF ~upd.ok
              THEN [rows |-> rs, result |-> StorageError]
              ELSE [rows |-> upd.rows, result |-> getProjectById("sqlite", upd.rows, id)]

\* updateProject, postgres variant: returns early when the timestamp is the
\* only key; otherwise UPDATE ... RETURNING *.
updateProjectPg(rs, id, input, at) ==
  IF Cardinality(UpdateClauses(input)) = 1
    THEN [rows |-> rs, result |-> getProjectById("postgres", rs, id)]
    ELSE LET upd == UpdateRow("postgres", rs, id, input, at)
         IN IF ~upd.ok
              THEN [rows |-> rs, result |-> StorageError]
              ELSE [rows |-> upd.rows,
                    result |-> IF HasId(upd.rows, id)
                                 THEN Found(RowOf(upd.rows, id)) ELSE NotFound]

updateProject(v, rs, id, input, at) ==
  IF v = "sqlite" THEN updateProjectSqlite(rs, id, input, at)
                  ELSE updateProjectPg(rs, id, input, at)

\* Mutant: the number of changed rows is not consulted.
deleteProjectAlwaysTrue(rs, id) ==
  [rows |-> { r \in rs : r.id # id }, result |-> Bool(TRUE)]

\* A DELETE whose WHERE clause also matches the later ids.
deleteProjectFromId(rs, id) ==
  LET remaining == { r \in rs : r.id < id }
  IN [rows |-> remaining, result |-> Bool(Cardinality(rs) - Cardinality(remaining) > 0)]

\* deleteProject: DELETE FROM projects WHERE id = ?; true iff a row went.
deleteProject(rs, id) ==
  LET remaining == { r \in rs : r.id # id }
  IN [rows |-> remaining, result |-> Bool(Cardinality(rs) - Cardinality(remaining) > 0)]

\* initializeDatabase: seed the table if it is empty.
RECURSIVE SeedFrom(_, _, _, _, _)
SeedFrom(v, rs, s, at, i) ==
  IF i > Len(SeedProjects)
    THEN [rows |-> rs, seq |-> s]
    ELSE LET ins == InsertRow(v, rs, s, at, SeedProjects[i].name,
                              SeedProjects[i].description, SeedProjects[i].category,
                              EncodeBoolean(v, SeedProjects[i].isPublic))
         IN SeedFrom(v, ins.rows, ins.seq, at, i + 1)

\* An initializeDatabase without the `count === 0` test.
initializeDatabaseAlwaysSeeding(v, rs, s, at) == SeedFrom(v, rs, s, at, 1)

initializeDatabase(v, rs, s, at) ==
  IF Cardinality(rs) = 0 THEN SeedFrom(v, rs, s, at, 1) ELSE [rows |-> rs, seq |-> s]

\* ------------------------------------------------------------- behaviour
Init ==
  /\ variant \in Variants
  /\ initialized = FALSE
  /\ rows = {}
  /\ seq = 0
  /\ now = 0
  /\ updates = 0
  /\ call = NoCall
  /\ before = {}
  /\ result = NoResult
  /\ deleted = {}

\* Module load: initializeDatabase runs once; the repository functions run
\* only after it (sqlite: synchronously at import; postgres: await initialized).
InitializeDatabase ==
  /\ ~initialized
  /\ LET init == initializeDatabase(variant, rows, seq, now)
     IN /\ rows' = init.rows
        /\ seq' = init.seq
  /\ initialized' = TRUE
  /\ UNCHANGED <<variant, now, updates, call, before, result, deleted>>

\* The store clock advances.
Tick ==
  /\ now < MaxTime
  /\ now' = now + 1
  /\ UNCHANGED <<variant, initialized, rows, seq, updates, call, before, result, deleted>>

GetAllProjects ==
  /\ initialized
  /\ \E ps \in getAllProjects(variant, rows) : result' = Listing(ps)
  /\ call' = [op |-> "list", id |-> 0, input |-> NoCall.input, at |-> now]
  /\ before' = rows
  /\ UNCHANGED <<variant, initialized, rows, seq, now, updates, deleted>>

GetProjectById(id) ==
  /\ initialized
  /\ result' = getProjectById(variant, rows, id)
  /\ call' = [op |-> "getById", id |-> id, input |-> NoCall.input, at |-> now]
  /\ before' = rows
  /\ UNCHANGED <<variant, initialized, rows, seq, now, updates, deleted>>

CreateProject(input) ==
  /\ initialized
  /\ seq < MaxId
  /\ LET c == createProject(variant, rows, seq, now, input)
     IN /\ rows' = c.rows
        /\ seq' = c.seq
        /\ result' = c.result
  /\ call' = [op |-> "create", id |-> 0, input |-> input, at |-> now]
  /\ before' = rows
  /\ UNCHANGED <<variant, initialized, now, updates, deleted>>

UpdateProject(id, input) ==
  /\ initialized
  /\ updates < MaxUpdates
  /\ LET u == updateProject(variant, rows, id, input, now)
     IN /\ rows' = u.rows
        /\ result' = u.result
  /\ updates' = updates + 1
  /\ call' = [op |-> "update", id |-> id, input |-> input, at |-> now]
  /\ before' = rows
  /\ UNCHANGED <<variant, initialized, seq, now, deleted>>

DeleteProject(id) ==
  /\ initialized
  /\ LET d == deleteProject(rows, id)
     IN /\ rows' = d.rows
        /\ result' = d.result
        /\ deleted' = IF d.result.value THEN deleted \cup {id} ELSE deleted
  /\ call' = [op |-> "delete", id |-> id, input |-> NoCall.input, at |-> now]
  /\ before' = rows
  /\ UNCHANGED <<variant, initialized, seq, now, updates>>

Next ==
  \/ InitializeDatabase
  \/ Tick
  \/ GetAllProjects
  \/ \E id \in CallIds : GetProjectById(id)
  \/ \E input \in CreateInputs : CreateProject(input)
  \/ \E id \in CallIds : \E input \in UpdateInputs : UpdateProject(id, input)
  \/ \E id \in CallIds : DeleteProject(id)

Spec == Init /\ [][Next]_vars

\* ------------------------------------------------- search and category
\* Text that is searched is a sequence of characters.  The characters
\* explored are ASCII letters in both cases and the two LIKE wildcards.
Fold(c) ==
  CASE c = "A" -> "a"
    [] c = "B" -> "b"
    [] c = "C" -> "c"
    [] OTHER -> c

\* text LIKE pattern (sqlite) / text ILIKE pattern (postgres), no ESCAPE:
\* % matches any run of characters, _ any one character, every other
\* character itself without regard to case.
RECURSIVE Like(_, _)
Like(text, pattern) ==
  IF pattern = <<>> THEN text = <<>>
  ELSE IF Head(pattern) = "%"
    THEN \/ Like(text, Tail(pattern))
         \/ text # <<>> /\ Like(Tail(text), pattern)
  ELSE IF Head(pattern) = "_"
    THEN text # <<>> /\ Like(Tail(text), Tail(pattern))
  ELSE /\ text # <<>>
       /\ Fold(Head(text)) = Fold(Head(pattern))
       /\ Like(Tail(text), Tail(pattern))

\* const searchTerm = `%${query}%`
searchTerm(query) == <<"%">> \o query \o <<"%">>

\* searchProjects: WHERE name LIKE ? OR description LIKE ? ORDER BY updatedAt DESC
searchProjects(v, rs, query) ==
  LET matching == { r \in rs : \/ Like(r.name, searchTerm(query))
                               \/ Like(r.description, searchTerm(query)) }
  IN { [i \in DOMAIN s |-> Decode(v, s[i])] : s \in OrderByUpdatedAtDesc(matching) }

\* A getProjectsByCategory whose WHERE clause is dropped.
getProjectsByCategoryUnfiltered(v, rs, category) == getAllProjects(v, rs)

\* getProjectsByCategory: WHERE category = ? ORDER BY updatedAt DESC
getProjectsByCategory(v, rs, category) ==
  LET matching == { r \in rs : r.category = category }
  IN { [i \in DOMAIN s |-> Decode(v, s[i])] : s \in OrderByUpdatedAtDesc(matching) }

SearchProjects(query) ==
  /\ initialized
  /\ \E ps \in searchProjects(variant, rows, query) : result' = Listing(ps)
  /\ call' = [op |-> "search", id |-> 0, input |-> [query |-> query], at |-> now]
  /\ before' = rows
  /\ UNCHANGED <<variant, initialized, rows, seq, now, updates, deleted>>

GetProjectsByCategory(category) ==
  /\ initialized
  /\ \E ps \in getProjectsByCategory(variant, rows, category) : result' = Listing(ps)
  /\ call' = [op |-> "listByCategory", id |-> 0, input |-> [category |-> category], at |-> now]
  /\ before' = rows
  /\ UNCHANGED <<variant, initialized, rows, seq, now, updates, deleted>>

\* Projects whose text is explored by the queries.
QueryNames == { <<"A", "b">>, <<"a", "_", "c">>, <<"c", "%">> }
QueryDescriptions == { <<"b", "c">>, <<"C", "a", "B">> }
QueryInputs ==
  { [name |-> n, description |-> d, category |-> c, isPublic |-> FALSE] :
      n \in QueryNames, d \in QueryDescriptions, c \in {"product", "marketing"} }

Queries == { <<>>, <<"a">>, <<"B">>, <<"a", "b">>, <<"c", "a">>, <<"%">>, <<"_">>,
             <<"a", "_">>, <<"z">> }

QueryCategories == Categories \cup {"bogus", "Product"}

\* The table after the seeded projects were deleted and up to two projects
\* were created, the second one clock reading later.
QueryTables(v) ==
  LET none == [rows |-> {}, seq |-> Len(SeedProjects)]
      add(t, input, at) ==
        LET c == createProject(v, t.rows, t.seq, at, input)
        IN [rows |-> c.rows, seq |-> c.seq]
  IN {none}
     \cup { add(none, i, 0) : i \in QueryInputs }
     \cup { add(add(none, i, 0), j, 1) : i \in QueryInputs, j \in QueryInputs }

InitQuery ==
  /\ variant \in Variants
  /\ initialized = TRUE
  /\ \E t \in QueryTables(variant) : rows = t.rows /\ seq = t.seq
  /\ now = 1
  /\ updates = 0
  /\ call = NoCall
  /\ before = {}
  /\ result = NoResult
  /\ deleted = 1 .. Len(SeedProjects)

NextQuery ==
  \/ \E query \in Queries : SearchProjects(query)
  \/ \E category \in QueryCategories : GetProjectsByCategory(category)
  \/ \E id \in CallIds : \E c \in {"marketing", "internal"} :
       UpdateProject(id, [f \in {"category"} |-> c])
  \/ \E id \in CallIds : DeleteProject(id)

SpecQuery == InitQuery /\ [][NextQuery]_vars

\* ------------------------------------------------------ storage failures
\* The SQL statements one repository call issues, in order.
Statements(v, op, input) ==
  CASE op = "create" -> IF v = "sqlite" THEN <<"INSERT", "SELECT">> ELSE <<"INSERT">>
    [] op = "update" -> IF v = "sqlite" THEN <<"UPDATE", "SELECT">>
                        ELSE IF Cardinality(UpdateClauses(input)) = 1
                          THEN <<"SELECT">> ELSE <<"UPDATE">>
    [] op = "delete" -> <<"DELETE">>
    [] op = "getById" -> <<"SELECT">>

\* createProject when its k-th statement throws: no statement is inside a
\* try block or a transaction, so what ran before the throw stays.
createProjectFailingAt(v, rs, s, at, input, k) ==
  IF k = 1
    THEN [reached |-> TRUE, rows |-> rs, seq |-> s, result |-> StorageError]
    ELSE LET ins == InsertRow(v, rs, s, at, input.name, input.description,
                              input.category, EncodeBoolean(v, input.isPublic))
         IN [reached |-> ins.ok, rows |-> ins.rows, seq |-> ins.seq,
             result |-> StorageError]

\* updateProject when its k-th statement throws.
updateProjectFailingAt(v, rs, id, input, at, k) ==
  IF k = 1
    THEN [reached |-> TRUE, rows |-> rs, result |-> StorageError]
    ELSE LET upd == UpdateRow(v, rs, id, input, at)
         IN [reached |-> upd.ok, rows |-> upd.rows, result |-> StorageError]

CreateProjectFailing(input, k) ==
  /\ initialized
  /\ seq < MaxId
  /\ k \in DOMAIN Statements(variant, "create", input)
  /\ LET c == createProjectFailingAt(variant, rows, seq, now, input, k)
     IN /\ c.reached
        /\ rows' = c.rows
        /\ seq' = c.seq
        /\ result' = c.result
  /\ call' = [op |-> "create", id |-> 0, input |-> input, at |-> now,
              fault |-> Statements(variant, "create", input)[k]]
  /\ before' = rows
  /\ UNCHANGED <<variant, initialized, now, updates, deleted>>

UpdateProjectFailing(id, input, k) ==
  /\ initialized
  /\ updates < MaxUpdates
  /\ k \in DOMAIN Statements(variant, "update", input)
  /\ LET u == updateProjectFailingAt(variant, rows, id, input, now, k)
     IN /\ u.reached
        /\ rows' = u.rows
        /\ result' = u.result
  /\ updates' = updates + 1
  /\ call' = [op |-> "update", id |-> id, input |-> input, at |-> now,
              fault |-> Statements(variant, "update", input)[k]]
  /\ before' = rows
  /\ UNCHANGED <<variant, initialized, seq, now, deleted>>

\* deleteProject and getProjectById issue one statement each.
DeleteProjectFailing(id) ==
  /\ initialized
  /\ result' = StorageError
  /\ call' = [op |-> "delete", id |-> id, input |-> NoCall.input, at |-> now,
              fault |-> Statements(variant, "delete", NoCall.input)[1]]
  /\ before' = rows
  /\ UNCHANGED <<variant, initialized, rows, seq, now, updates, deleted>>

GetProjectByIdFailing(id) ==
  /\ initialized
  /\ result' = StorageError
  /\ call' = [op |-> "getById", id |-> id, input |-> NoCall.input, at |-> now,
              fault |-> Statements(variant, "getById", NoCall.input)[1]]
  /\ before' = rows
  /\ UNCHANGED <<variant, initialized, rows, seq, now, updates, deleted>>

FaultIds == {1, 4}
FaultUpdateInputs == { [f \in {} |-> 0], [f \in {"name"} |-> "Renamed"] }

NextFaults ==
  \/ InitializeDatabase
  \/ Tick
  \/ \E input \in CreateInputs : CreateProject(input)
  \/ \E id \in FaultIds : \E input \in UpdateInputs : UpdateProject(id, input)
  \/ \E id \in FaultIds : DeleteProject(id)
  \/ \E input \in CreateInputs : \E k \in 1 .. 2 : CreateProjectFailing(input, k)
  \/ \E id \in FaultIds : \E input \in FaultUpdateInputs : \E k \in 1 .. 2 :
       UpdateProjectFailing(id, input, k)
  \/ \E id \in FaultIds : DeleteProjectFailing(id)
  \/ \E id \in FaultIds : GetProjectByIdFailing(id)

SpecFaults == Init /\ [][NextFaults]_vars

\* ----------------------------------------------------- concurrent updates
\* Two callers update the same project at once.  In this specification
\* call and result hold one entry per caller; a caller's entry of call
\* also holds the statement it is to issue next (pc) and the position of
\* its write among the committed writes (commit).  Each SQL statement is
\* atomic; statements of different callers interleave.
Callers == {1, 2}

RaceIds == {1, 2}

RaceInputs ==
  { [f \in {"name"} |-> "Renamed"],
    [f \in {"name"} |-> "Renamed again"],
    [f \in {"category"} |-> "marketing"],
    [f \in {"category"} |-> "internal"],
    [f \in {"isPublic"} |-> TRUE],
    [f \in {"isPublic"} |-> FALSE] }

InitRace ==
  /\ variant \in Variants
  /\ initialized = TRUE
  /\ LET init == initializeDatabase(variant, {}, 0, 0)
     IN /\ rows = init.rows
        /\ seq = init.seq
        /\ before = init.rows
  /\ now = 0
  /\ updates = 0
  /\ \E id \in RaceIds : \E i1 \in RaceInputs : \E i2 \in RaceInputs :
       /\ DOMAIN i1 = DOMAIN i2
       /\ call = [p \in Callers |->
                    [op |-> "update", id |-> id, input |-> IF p = 1 THEN i1 ELSE i2,
                     at |-> 0, pc |-> Statements(variant, "update", i1)[1], commit |-> 0]]
  /\ result = [p \in Callers |-> NoResult]
  /\ deleted = {}

\* The UPDATE of caller p commits.  postgres returns the row it wrote
\* (RETURNING *) and the call is over; sqlite goes on to getProjectById.
RaceUpdate(p) ==
  /\ call[p].pc = "UPDATE"
  /\ LET upd == UpdateRow(variant, rows, call[p].id, call[p].input, now)
         stmts == Statements(variant, "update", call[p].input)
     IN /\ rows' = upd.rows
        /\ IF ~upd.ok
             THEN /\ result' = [result EXCEPT ![p] = StorageError]
                  /\ call' = [call EXCEPT ![p].pc = "done", ![p].at = now]
                  /\ updates' = updates
             ELSE /\ updates' = updates + 1
                  /\ IF Len(stmts) = 1
                       THEN /\ result' = [result EXCEPT ![p] =
                                            IF HasId(upd.rows, call[p].id)
                                              THEN Found(RowOf(upd.rows, call[p].id))
                                              ELSE NotFound]
                            /\ call' = [call EXCEPT ![p].pc = "done", ![p].at = now,
                                                    ![p].commit = updates + 1]
                       ELSE /\ result' = result
                            /\ call' = [call EXCEPT ![p].pc = stmts[2], ![p].at = now,
                                                    ![p].commit = updates + 1]
  /\ UNCHANGED <<variant, initialized, seq, now, before, deleted>>

\* sqlite: return getProjectById(input.id), reading the table as it is now.
RaceSelect(p) ==
  /\ call[p].pc = "SELECT"
  /\ result' = [result EXCEPT ![p] = getProjectById(variant, rows, call[p].id)]
  /\ call' = [call EXCEPT ![p].pc = "done"]
  /\ UNCHANGED <<variant, initialized, rows, seq, now, updates, before, deleted>>

NextRace ==
  \/ Tick
  \/ \E p \in Callers : RaceUpdate(p)
  \/ \E p \in Callers : RaceSelect(p)

SpecRace == InitRace /\ [][NextRace]_vars

\* ---------------------------------------------------------- server actions
\* The actions and pages in src call the repository synchronously: they are
\* written against the sqlite repository, and are modelled over it.
RECURSIVE Repeat(_, _)
Repeat(s, n) ==
  IF n = 0 THEN ""
  ELSE LET half == Repeat(s, n \div 2)
       IN half \o half \o (IF n % 2 = 1 THEN s ELSE "")

\* FormData is a function from the submitted field names to strings;
\* formData.get(f) of a field that was not submitted is null.
Submitted(formData, f) == f \in DOMAIN formData

\* formData.get(f) || undefined: a missing or empty field is left out.
Truthy(formData, f) == Submitted(formData, f) /\ formData[f] # ""

\* formData.get('isPublic') === 'on' || formData.get('isPublic') === 'true'
IsPublicOf(formData) ==
  Submitted(formData, "isPublic") /\ formData["isPublic"] \in {"on", "true"}

\* rawData of createProject: name, description and category as submitted
\* (null when missing), isPublic always a boolean.
CreateRawData(formData) ==
  [f \in (DOMAIN formData \cap {"name", "description", "category"}) \cup {"isPublic"} |->
     IF f = "isPublic" THEN IsPublicOf(formData) ELSE formData[f]]

\* A rawData of updateProject that carries isPublic only when submitted.
UpdateRawDataOmittingIsPublic(formData) ==
  [f \in { g \in {"name", "description", "category"} : Truthy(formData, g) }
           \cup ({"isPublic"} \cap DOMAIN formData) |->
     IF f = "isPublic" THEN IsPublicOf(formData) ELSE formData[f]]

\* rawData of updateProject: falsy text fields become undefined.
UpdateRawData(formData) ==
  [f \in { g \in {"name", "description", "category"} : Truthy(formData, g) }
           \cup {"isPublic"} |->
     IF f = "isPublic" THEN IsPublicOf(formData) ELSE formData[f]]

\* Length checks that read the messages literally: "less than" the maximum.
LengthIssuesBelowMaximum(text, required, short, long, lo, hi) ==
  (IF required # "" /\ Len(text) < 1 THEN <<required>> ELSE <<>>)
  \o (IF Len(text) < lo THEN <<short>> ELSE <<>>)
  \o (IF Len(text) >= hi THEN <<long>> ELSE <<>>)

\* The messages of the checks of z.string().min(..).max(..) that fail.
LengthIssues(text, required, short, long, lo, hi) ==
  (IF required # "" /\ Len(text) < 1 THEN <<required>> ELSE <<>>)
  \o (IF Len(text) < lo THEN <<short>> ELSE <<>>)
  \o (IF Len(text) > hi THEN <<long>> ELSE <<>>)

NameIssues(text, required) ==
  LengthIssues(text, required, "Project name must be at least 3 characters",
               "Project name must be less than 100 characters", 3, 100)

DescriptionIssues(text, required) ==
  LengthIssues(text, required, "Description must be at least 10 characters",
               "Description must be less than 500 characters", 10, 500)

\* The issues of one field of rawData under a schema; a field the schema
\* requires (create) must be a string, an optional one (update) may be absent.
FieldIssues(rawData, f, optional) ==
  IF f \notin DOMAIN rawData
    THEN IF optional THEN <<>> ELSE <<"Invalid input: expected string, received null">>
    ELSE CASE f = "name" ->
                NameIssues(rawData[f], IF optional THEN "" ELSE "Project name is required")
           [] f = "description" ->
                DescriptionIssues(rawData[f], IF optional THEN "" ELSE "Description is required")
           [] f = "category" ->
                IF rawData[f] \in Categories THEN <<>> ELSE <<"Invalid category selected">>
           [] OTHER -> <<>>

\* schema.safeParse(rawData) followed by z.flattenError: success with the
\* parsed data, or the field errors.
SafeParse(rawData, optional) ==
  LET failing == { f \in Fields : FieldIssues(rawData, f, optional) # <<>> }
  IN [success |-> failing = {},
      data |-> rawData,
      fieldErrors |-> [f \in failing |-> FieldIssues(rawData, f, optional)]]

createProjectSchema(rawData) == SafeParse(rawData, FALSE)

updateProjectSchema(rawData) == SafeParse(rawData, TRUE)

\* What an action did and how it ended.  events lists, in order, the calls
\* made to the repository, to revalidatePath and to redirect.  An action
\* ends by returning a state or by the NEXT_REDIRECT error redirect() throws.
RepositoryCall(name) == [event |-> "repository", arg |-> name]

revalidatePath(path) == [event |-> "revalidatePath", arg |-> path]

ProjectPath(id) == "/projects/" \o ToString(id)

Returned(state, events) == [kind |-> "returned", value |-> state, events |-> events]

\* A validation failure reported with the message of the catch block.
InvalidFormDataAsFailure(fieldErrors) ==
  [success |-> FALSE, errors |-> fieldErrors,
   message |-> "Failed to create project. Please try again."]

InvalidFormData(fieldErrors) ==
  [success |-> FALSE, errors |-> fieldErrors, message |-> "Invalid form data"]

Failure(message) == [success |-> FALSE, message |-> message]

\* A redirect() that always leads to the dashboard.
redirectToDashboard(path, events) ==
  [kind |-> "redirect", value |-> "/",
   events |-> Append(events, [event |-> "redirect", arg |-> "/"])]

\* redirect(path), called after the try block: its error leaves the action.
redirect(path, events) ==
  [kind |-> "redirect", value |-> path,
   events |-> Append(events, [event |-> "redirect", arg |-> path])]

\* The createProject action.
createProjectAction(rs, s, at, formData) ==
  LET validationResult == createProjectSchema(CreateRawData(formData))
  IN IF ~validationResult.success
       THEN [rows |-> rs, seq |-> s,
             outcome |-> Returned(InvalidFormData(validationResult.fieldErrors), <<>>)]
       ELSE LET c == createProject("sqlite", rs, s, at, validationResult.data)
                called == <<RepositoryCall("createProject")>>
            IN IF c.result.kind # "project"
                 THEN [rows |-> c.rows, seq |-> c.seq,
                       outcome |-> Returned(Failure("Failed to create project. Please try again."),
                                            called)]
                 ELSE [rows |-> c.rows, seq |-> c.seq,
                       outcome |-> redirect(ProjectPath(c.result.value.id),
                                            Append(called, revalidatePath("/")))]

\* An updateProject action without the `if (!project)` return.
updateProjectActionIgnoringNull(rs, id, at, formData) ==
  LET validationResult == updateProjectSchema(UpdateRawData(formData))
  IN IF ~validationResult.success
       THEN [rows |-> rs,
             outcome |-> Returned(InvalidFormData(validationResult.fieldErrors), <<>>)]
       ELSE [rows |-> updateProject("sqlite", rs, id, validationResult.data, at).rows,
             outcome |-> redirect(ProjectPath(id),
                           <<RepositoryCall("updateProject"), revalidatePath("/"),
                             revalidatePath(ProjectPath(id))>>)]

\* The updateProject action.
updateProjectAction(rs, id, at, formData) ==
  LET validationResult == updateProjectSchema(UpdateRawData(formData))
  IN IF ~validationResult.success
       THEN [rows |-> rs,
             outcome |-> Returned(InvalidFormData(validationResult.fieldErrors), <<>>)]
       ELSE LET u == updateProject("sqlite", rs, id, validationResult.data, at)
                called == <<RepositoryCall("updateProject")>>
            IN IF u.result.kind = "error"
                 THEN [rows |-> u.rows,
                       outcome |-> Returned(Failure("Failed to update project. Please try again."),
                                            called)]
                 ELSE IF u.result = NotFound
                   THEN [rows |-> u.rows,
                         outcome |-> Returned(Failure("Project not found"), called)]
                   ELSE [rows |-> u.rows,
                         outcome |-> redirect(ProjectPath(id),
                                       called \o <<revalidatePath("/"),
                                                   revalidatePath(ProjectPath(id))>>)]

\* deleteProjectAction.
deleteProjectAction(rs, id) ==
  LET d == deleteProject(rs, id)
      called == <<RepositoryCall("deleteProject")>>
  IN IF ~d.result.value
       THEN [rows |-> d.rows, outcome |-> Returned(Failure("Project not found"), called)]
       ELSE [rows |-> d.rows,
             outcome |-> redirect("/", Append(called, revalidatePath("/")))]

LongName == Repeat("n", 101)

CreateForms ==
  { [name |-> "Gamma", description |-> "A third project", category |-> "marketing"],
    [name |-> "Gamma", description |-> "A third project", category |-> "product",
     isPublic |-> "on"],
    [name |-> "Ga", description |-> "A third project", category |-> "marketing"],
    [name |-> "", description |-> "Too short", category |-> "marketing", isPublic |-> "on"],
    [name |-> LongName, description |-> "A third project", category |-> "internal"],
    [name |-> "Gamma", description |-> "A third project", category |-> "bogus"],
    [name |-> "Gamma", description |-> "A third project"],
    [f \in {} |-> ""] }

UpdateForms ==
  { [name |-> "Renamed", description |-> "", category |-> ""],
    [name |-> "", description |-> "A new description", category |-> "internal",
     isPublic |-> "true"],
    [f \in {} |-> ""],
    [name |-> "Re", description |-> "", category |-> "marketing"],
    [name |-> "Renamed", description |-> "Too short", category |-> "bogus"] }

CreateProjectAction(formData) ==
  /\ initialized
  /\ seq < MaxId
  /\ LET a == createProjectAction(rows, seq, now, formData)
     IN /\ rows' = a.rows
        /\ seq' = a.seq
        /\ result' = a.outcome
  /\ call' = [op |-> "createProjectAction", id |-> 0, input |-> formData, at |-> now]
  /\ before' = rows
  /\ UNCHANGED <<variant, initialized, now, updates, deleted>>

UpdateProjectAction(id, formData) ==
  /\ initialized
  /\ updates < MaxUpdates
  /\ LET a == updateProjectAction(rows, id, now, formData)
     IN /\ rows' = a.rows
        /\ result' = a.outcome
  /\ updates' = updates + 1
  /\ call' = [op |-> "updateProjectAction", id |-> id, input |-> formData, at |-> now]
  /\ before' = rows
  /\ UNCHANGED <<variant, initialized, seq, now, deleted>>

DeleteProjectAction(id) ==
  /\ initialized
  /\ LET a == deleteProjectAction(rows, id)
     IN /\ rows' = a.rows
        /\ result' = a.outcome
        /\ deleted' = IF a.outcome.kind = "redirect" THEN deleted \cup {id} ELSE deleted
  /\ call' = [op |-> "deleteProjectAction", id |-> id, input |-> NoCall.input, at |-> now]
  /\ before' = rows
  /\ UNCHANGED <<variant, initialized, seq, now, updates>>

\* ------------------------------------------------------------------ pages
\* A route id is the sequence of characters of the [id] path segment.
DecimalDigits == <<"0", "1", "2", "3", "4", "5", "6", "7", "8", "9">>

IsDigit(c) == \E d \in DOMAIN DecimalDigits : DecimalDigits[d] = c

DigitValue(c) == (CHOOSE d \in DOMAIN DecimalDigits : DecimalDigits[d] = c) - 1

\* The value of the longest prefix of decimal digits, read after acc.
RECURSIVE LeadingDigits(_, _)
LeadingDigits(cs, acc) ==
  IF cs = <<>> \/ ~IsDigit(Head(cs))
    THEN acc
    ELSE LeadingDigits(Tail(cs), 10 * acc + DigitValue(Head(cs)))

\* parseInt(id, 10): an optional sign, then the leading digits; whatever
\* follows them is ignored; NaN when there is no leading digit.
parseInt(id) ==
  LET signed == id # <<>> /\ Head(id) \in {"-", "+"}
      digits == IF signed THEN Tail(id) ELSE id
  IN IF digits = <<>> \/ ~IsDigit(Head(digits))
       THEN [nan |-> TRUE, value |-> 0]
       ELSE [nan |-> FALSE,
             value |-> IF Head(id) = "-" THEN 0 - LeadingDigits(digits, 0)
                                         ELSE LeadingDigits(digits, 0)]

\* getProjectById(projectId) for a parsed id: NaN is bound as NULL, and
\* id = NULL selects no row.
getProjectByParsedId(rs, projectId) ==
  IF projectId.nan THEN NotFound ELSE getProjectById("sqlite", rs, projectId.value)

NotFoundPage(events) == [kind |-> "notFound", value |-> 0, events |-> events]

Rendered(project, events) == [kind |-> "page", value |-> project, events |-> events]

\* EditProjectPage: guard, then getProjectById, then notFound() if null.
editProjectPage(rs, id) ==
  LET projectId == parseInt(id)
  IN IF projectId.nan \/ projectId.value <= 0
       THEN NotFoundPage(<<>>)
       ELSE LET project == getProjectByParsedId(rs, projectId)
                called == <<RepositoryCall("getProjectById")>>
            IN IF project = NotFound THEN NotFoundPage(called)
                                     ELSE Rendered(project.value, called)

\* ProjectPage: getProjectById(parseInt(id, 10)), then notFound() if null.
projectPage(rs, id) ==
  LET projectId == parseInt(id)
      project == getProjectByParsedId(rs, projectId)
      called == <<RepositoryCall("getProjectById")>>
  IN IF project = NotFound THEN NotFoundPage(called)
                           ELSE Rendered(project.value, called)

RouteIds ==
  { <<"1">>, <<"4">>, <<"0">>, <<"-", "1">>, <<"9", "9">>,
    <<"i", "n", "v", "a", "l", "i", "d", "-", "i", "d">>, <<"1", "x">>, <<>> }

EditProjectPage(id) ==
  /\ initialized
  /\ result' = editProjectPage(rows, id)
  /\ call' = [op |-> "EditProjectPage", id |-> 0, input |-> id, at |-> now]
  /\ before' = rows
  /\ UNCHANGED <<variant, initialized, rows, seq, now, updates, deleted>>

ProjectPage(id) ==
  /\ initialized
  /\ result' = projectPage(rows, id)
  /\ call' = [op |-> "ProjectPage", id |-> 0, input |-> id, at |-> now]
  /\ before' = rows
  /\ UNCHANGED <<variant, initialized, rows, seq, now, updates, deleted>>

InitApp == Init /\ variant = "sqlite"

NextApp ==
  \/ InitializeDatabase
  \/ Tick
  \/ \E formData \in CreateForms : CreateProjectAction(formData)
  \/ \E id \in CallIds : \E formData \in UpdateForms : UpdateProjectAction(id, formData)
  \/ \E id \in CallIds : DeleteProjectAction(id)
  \/ \E id \in RouteIds : EditProjectPage(id)
  \/ \E id \in RouteIds : ProjectPage(id)

SpecApp == InitApp /\ [][NextApp]_vars

\* ---------------------------------------------------------- initialization
\* The seed loop when its k-th INSERT throws: each INSERT is a statement of
\* its own (there is no sql.begin around the loop), so the rows inserted
\* before the throw stay.
RECURSIVE SeedBefore(_, _, _, _, _, _)
SeedBefore(v, rs, s, at, i, k) ==
  IF i >= k
    THEN [rows |-> rs, seq |-> s]
    ELSE LET ins == InsertRow(v, rs, s, at, SeedProjects[i].name,
                              SeedProjects[i].description, SeedProjects[i].category,
                              EncodeBoolean(v, SeedProjects[i].isPublic))
         IN SeedBefore(v, ins.rows, ins.seq, at, i + 1, k)

initializeDatabaseFailingAt(v, rs, s, at, k) ==
  IF Cardinality(rs) = 0 THEN SeedBefore(v, rs, s, at, 1, k) ELSE [rows |-> rs, seq |-> s]

\* initializeDatabase rejects at the k-th seed INSERT; the rejection is
\* caught and logged at module load, and the repository functions, which
\* await the caught promise, go on to run.  Only the postgres
\* initializeDatabase is among the sources.
InitializeDatabaseFailing(k) ==
  /\ ~initialized
  /\ variant = "postgres"
  /\ Cardinality(rows) = 0
  /\ LET init == initializeDatabaseFailingAt(variant, rows, seq, now, k)
     IN /\ rows' = init.rows
        /\ seq' = init.seq
  /\ initialized' = TRUE
  /\ call' = [op |-> "initializeDatabase", id |-> 0, input |-> NoCall.input, at |-> now,
              fault |-> "INSERT"]
  /\ before' = rows
  /\ result' = NoResult
  /\ UNCHANGED <<variant, now, updates, deleted>>

\* The server process is started again: the module is loaded anew and the
\* database keeps its rows and its id sequence.
Restart ==
  /\ initialized
  /\ seq < MaxId
  /\ initialized' = FALSE
  /\ call' = [op |-> "restart", id |-> 0, input |-> NoCall.input, at |-> now]
  /\ before' = rows
  /\ result' = NoResult
  /\ UNCHANGED <<variant, rows, seq, now, updates, deleted>>

NextInit ==
  \/ InitializeDatabase
  \/ \E k \in DOMAIN SeedProjects : InitializeDatabaseFailing(k)
  \/ Restart
  \/ Tick
  \/ \E input \in CreateInputs : CreateProject(input)
  \/ \E id \in CallIds : \E input \in UpdateInputs : UpdateProject(id, input)
  \/ \E id \in CallIds : DeleteProject(id)

SpecInit == Init /\ [][NextInit]_vars

\* ------------------------------------------------------ schema validation
\* The schemas as functions of their input: texts of the lengths around
\* the bounds are parsed by each schema.
NameLengths == {0, 1, 2, 3, 4, 99, 100, 101}

DescriptionLengths == {0, 9, 10, 11, 499, 500, 501}

SchemaInputs ==
  LET full == { [name |-> Repeat("n", n), description |-> Repeat("d", d),
                 category |-> "internal", isPublic |-> FALSE] :
                  n \in NameLengths, d \in DescriptionLengths }
  IN full
     \cup { [f \in {"name", "category", "isPublic"} |-> i[f]] : i \in full }
     \cup { [f \in {"description", "isPublic"} |-> i[f]] : i \in full }

InitSchema ==
  /\ variant \in Variants
  /\ initialized = FALSE
  /\ rows = {}
  /\ seq = 0
  /\ now = 0
  /\ updates = 0
  /\ \E rawData \in SchemaInputs :
       call = [op |-> "rawData", id |-> 0, input |-> rawData, at |-> 0]
  /\ before = {}
  /\ result = NoResult
  /\ deleted = {}

ParseCreate ==
  /\ call.op = "rawData"
  /\ result' = [kind |-> "safeParse", value |-> createProjectSchema(call.input)]
  /\ call' = [call EXCEPT !.op = "createProjectSchema"]
  /\ UNCHANGED <<variant, initialized, rows, seq, now, updates, before, deleted>>

ParseUpdate ==
  /\ call.op = "rawData"
  /\ result' = [kind |-> "safeParse", value |-> updateProjectSchema(call.input)]
  /\ call' = [call EXCEPT !.op = "updateProjectSchema"]
  /\ UNCHANGED <<variant, initialized, rows, seq, now, updates, before, deleted>>

NextSchema == ParseCreate \/ ParseUpdate

SpecSchema == InitSchema /\ [][NextSchema]_vars

\* ------------------------------------------------------------- module load
\* The postgres module: initializeDatabase runs asynchronously from module
\* load, one awaited statement after the other, while repository functions
\* are already being called.  In this specification call[0] is the run of
\* initializeDatabase (pc: the statement it is to issue next; seed: the
\* seed project an INSERT is to insert; created: the projects table
\* exists) and call[c], result[c] belong to caller c of a repository
\* function (pc: idle, await, done; during and settled: where the run of
\* initializeDatabase was when the function was called and when it went on).
InitializationError == [kind |-> "error", value |-> "InitializationError"]

\* The promise a run of initializeDatabase returns, by the run's position.
initializeDatabasePromise(pc) ==
  CASE pc = "done" -> "fulfilled"
    [] pc = "failed" -> "rejected"
    [] OTHER -> "pending"

\* An initialized promise without the .catch handler.
initializedWithoutCatch(pc) == initializeDatabasePromise(pc)

\* const initialized = initializeDatabase().catch(...): the handler logs
\* and returns, so a rejection becomes a fulfilled promise.
initializedPromise(pc) ==
  IF initializeDatabasePromise(pc) = "rejected"
    THEN "fulfilled" ELSE initializeDatabasePromise(pc)

\* A repository function that does not wait for the promise.
continuesWithoutAwait(promise) == "fulfilled"

\* await initialized: the function continues once the promise is settled,
\* and a rejected promise throws in the function.
awaitInitialized(promise) == promise

LoadCalls ==
  { [op |-> "list", id |-> 0, input |-> NoCall.input],
    [op |-> "getById", id |-> 1, input |-> NoCall.input],
    [op |-> "listByCategory", id |-> 0, input |-> [f \in {"category"} |-> "product"]],
    [op |-> "create", id |-> 0,
     input |-> [name |-> "Gamma", description |-> "A third project",
                category |-> "marketing", isPublic |-> FALSE]],
    [op |-> "update", id |-> 2, input |-> [f \in {"name"} |-> "Renamed"]],
    [op |-> "delete", id |-> 3, input |-> NoCall.input] }

\* What the query of a repository function gives on the table as it is:
\* the set of its possible outcomes.  Without the table the store rejects
\* the statement (relation "projects" does not exist).
LoadQuery(c, created, rs, s, at) ==
  IF ~created
    THEN { [rows |-> rs, seq |-> s, result |-> StorageError] }
    ELSE CASE c.op = "list" ->
                { [rows |-> rs, seq |-> s, result |-> Listing(ps)] :
                    ps \in getAllProjects("postgres", rs) }
           [] c.op = "listByCategory" ->
                { [rows |-> rs, seq |-> s, result |-> Listing(ps)] :
                    ps \in getProjectsByCategory("postgres", rs, c.input["category"]) }
           [] c.op = "getById" ->
                { [rows |-> rs, seq |-> s, result |-> getProjectById("postgres", rs, c.id)] }
           [] c.op = "create" ->
                { createProject("postgres", rs, s, at, c.input) }
           [] c.op = "update" ->
                { [rows |-> updateProject("postgres", rs, c.id, c.input, at).rows, seq |-> s,
                   result |-> updateProject("postgres", rs, c.id, c.input, at).result] }
           [] c.op = "delete" ->
                { [rows |-> deleteProject(rs, c.id).rows, seq |-> s,
                   result |-> deleteProject(rs, c.id).result] }

\* Module load on a fresh database, or on one seeded by an earlier run.
InitLoad ==
  /\ variant = "postgres"
  /\ initialized = FALSE
  /\ now = 0
  /\ updates = 0
  /\ \E created \in BOOLEAN :
       LET earlier == IF created THEN initializeDatabase(variant, {}, 0, 0)
                                 ELSE [rows |-> {}, seq |-> 0]
       IN /\ rows = earlier.rows
          /\ seq = earlier.seq
          /\ before = earlier.rows
          /\ call = [p \in {0} \cup Callers |->
                       IF p = 0
                         THEN [op |-> "initializeDatabase", id |-> 0, input |-> NoCall.input,
                               at |-> 0, pc |-> "CREATE TABLE", seed |-> 1,
                               created |-> created]
                         ELSE [op |-> "none", id |-> 0, input |-> NoCall.input,
                               at |-> 0, pc |-> "idle", during |-> "none",
                               settled |-> "none"]]
  /\ result = [p \in {0} \cup Callers |-> NoResult]
  /\ deleted = {}

\* initializeDatabase issues its next statement and the statement succeeds.
InitializeStep ==
  /\ call[0].pc \notin {"done", "failed"}
  /\ LET run == call[0]
         ins == InsertRow(variant, rows, seq, now, SeedProjects[run.seed].name,
                          SeedProjects[run.seed].description, SeedProjects[run.seed].category,
                          EncodeBoolean(variant, SeedProjects[run.seed].isPublic))
         next ==
           CASE run.pc = "CREATE TABLE" -> [run EXCEPT !.pc = "CREATE INDEX", !.created = TRUE]
             [] run.pc = "CREATE INDEX" -> [run EXCEPT !.pc = "COUNT"]
             [] run.pc = "COUNT" ->
                  [run EXCEPT !.pc = IF Cardinality(rows) = 0 THEN "INSERT" ELSE "done"]
             [] run.pc = "INSERT" ->
                  [run EXCEPT !.seed = @ + 1,
                              !.pc = IF run.seed = Len(SeedProjects) THEN "done" ELSE "INSERT"]
     IN /\ call' = [call EXCEPT ![0] = next]
        /\ rows' = IF run.pc = "INSERT" THEN ins.rows ELSE rows
        /\ seq' = IF run.pc = "INSERT" THEN ins.seq ELSE seq
        /\ initialized' = (initializedPromise(next.pc) # "pending")
  /\ UNCHANGED <<variant, now, updates, before, result, deleted>>

\* The statement initializeDatabase issues is rejected by the store: the
\* function rejects with that error.
InitializeFail ==
  /\ call[0].pc \notin {"done", "failed"}
  /\ call' = [call EXCEPT ![0].pc = "failed"]
  /\ result' = [result EXCEPT ![0] = InitializationError]
  /\ initialized' = (initializedPromise("failed") # "pending")
  /\ UNCHANGED <<variant, rows, seq, now, updates, before, deleted>>

\* A repository function is called and reaches `await initialized`.
Invoke(c, request) ==
  /\ call[c].pc = "idle"
  /\ call' = [call EXCEPT ![c] = [op |-> request.op, id |-> request.id,
                                  input |-> request.input, at |-> now,
                                  pc |-> "await", during |-> call[0].pc,
                                  settled |-> "none"]]
  /\ UNCHANGED <<variant, initialized, rows, seq, now, updates, before, result, deleted>>

\* The function continues after `await initialized`: the error of a rejected
\* promise is thrown to its caller, otherwise its query is issued.
Resume(c) ==
  /\ call[c].pc = "await"
  /\ LET promise == awaitInitialized(initializedPromise(call[0].pc))
     IN /\ promise # "pending"
        /\ IF promise = "rejected"
             THEN /\ result' = [result EXCEPT ![c] = result[0]]
                  /\ UNCHANGED <<rows, seq>>
             ELSE \E q \in LoadQuery(call[c], call[0].created, rows, seq, now) :
                    /\ result' = [result EXCEPT ![c] = q.result]
                    /\ rows' = q.rows
                    /\ seq' = q.seq
        /\ call' = [call EXCEPT ![c].pc = "done", ![c].settled = call[0].pc]
  /\ UNCHANGED <<variant, initialized, now, updates, before, deleted>>

NextLoad ==
  \/ InitializeStep
  \/ InitializeFail
  \/ \E c \in Callers : \E request \in LoadCalls : Invoke(c, request)
  \/ \E c \in Callers : Resume(c)

SpecLoad == InitLoad /\ [][NextLoad]_vars

\* The event loop runs every continuation that is ready: the run of
\* initializeDatabase goes on until it ends, and a function whose awaited
\* promise is settled is resumed.
SpecLoadFair ==
  /\ SpecLoad
  /\ WF_vars(InitializeStep \/ InitializeFail)
  /\ \A c \in Callers : WF_vars(Resume(c))

\* ------------------------------------------- server actions, failing store
\* A block that lets the error of the repository call leave the action.
catchBlockRethrowing(message, events) ==
  [kind |-> "thrown", value |-> StorageError, events |-> events]

\* catch (error) { console.error(...); return { success: false, message } }
catchBlock(message, events) == Returned(Failure(message), events)

\* The actions when the k-th statement of their repository call throws:
\* the throw leaves the try block before revalidatePath is reached.
createProjectActionFailingAt(rs, s, at, formData, k) ==
  LET validationResult == createProjectSchema(CreateRawData(formData))
      c == IF validationResult.success
             THEN createProjectFailingAt("sqlite", rs, s, at, validationResult.data, k)
             ELSE [reached |-> FALSE, rows |-> rs, seq |-> s]
  IN [reached |-> c.reached, rows |-> c.rows, seq |-> c.seq,
      outcome |-> catchBlock("Failed to create project. Please try again.",
                             <<RepositoryCall("createProject")>>)]

updateProjectActionFailingAt(rs, id, at, formData, k) ==
  LET validationResult == updateProjectSchema(UpdateRawData(formData))
      u == IF validationResult.success
             THEN updateProjectFailingAt("sqlite", rs, id, validationResult.data, at, k)
             ELSE [reached |-> FALSE, rows |-> rs]
  IN [reached |-> u.reached, rows |-> u.rows,
      outcome |-> catchBlock("Failed to update project. Please try again.",
                             <<RepositoryCall("updateProject")>>)]

deleteProjectActionFailing(rs, id) ==
  [reached |-> TRUE, rows |-> rs,
   outcome |-> catchBlock("Failed to delete project. Please try again.",
                          <<RepositoryCall("deleteProject")>>)]

CreateProjectActionFailing(formData, k) ==
  /\ initialized
  /\ seq < MaxId
  /\ k \in DOMAIN Statements("sqlite", "create", formData)
  /\ LET a == createProjectActionFailingAt(rows, seq, now, formData, k)
     IN /\ a.reached
        /\ rows' = a.rows
        /\ seq' = a.seq
        /\ result' = a.outcome
  /\ call' = [op |-> "createProjectAction", id |-> 0, input |-> formData, at |-> now,
              fault |-> Statements("sqlite", "create", formData)[k]]
  /\ before' = rows
  /\ UNCHANGED <<variant, initialized, now, updates, deleted>>

UpdateProjectActionFailing(id, formData, k) ==
  /\ initialized
  /\ updates < MaxUpdates
  /\ k \in DOMAIN Statements("sqlite", "update", formData)
  /\ LET a == updateProjectActionFailingAt(rows, id, now, formData, k)
     IN /\ a.reached
        /\ rows' = a.rows
        /\ result' = a.outcome
  /\ updates' = updates + 1
  /\ call' = [op |-> "updateProjectAction", id |-> id, input |-> formData, at |-> now,
              fault |-> Statements("sqlite", "update", formData)[k]]
  /\ before' = rows
  /\ UNCHANGED <<variant, initialized, seq, now, deleted>>

DeleteProjectActionFailing(id) ==
  /\ initialized
  /\ result' = deleteProjectActionFailing(rows, id).outcome
  /\ call' = [op |-> "deleteProjectAction", id |-> id, input |-> NoCall.input, at |-> now,
              fault |-> Statements("sqlite", "delete", NoCall.input)[1]]
  /\ before' = rows
  /\ UNCHANGED <<variant, initialized, rows, seq, now, updates, deleted>>

NextAppFaults ==
  \/ InitializeDatabase
  \/ Tick
  \/ \E formData \in CreateForms : CreateProjectAction(formData)
  \/ \E id \in CallIds : \E formData \in UpdateForms : UpdateProjectAction(id, formData)
  \/ \E id \in CallIds : DeleteProjectAction(id)
  \/ \E formData \in CreateForms : \E k \in 1 .. 2 : CreateProjectActionFailing(formData, k)
  \/ \E id \in CallIds : \E formData \in UpdateForms : \E k \in 1 .. 2 :
       UpdateProjectActionFailing(id, formData, k)
  \/ \E id \in CallIds : DeleteProjectActionFailing(id)

SpecAppFaults == InitApp /\ [][NextAppFaults]_vars

\* ----------------------------------------------------- DeleteProjectButton
\* The dialog of one project page.  In this specification call is the
\* component: its props (id), its state (open, isDeleting), whether it is
\* still mounted, the deleteProjectAction calls sent and not yet settled
\* (inFlight) and the attempts made; result is how the last call settled.
\* A click handler's state updates are rendered before the next event is
\* dispatched, so a click and its re-render are one step.
MaxAttempts == 2

\* Buttons that ignore isDeleting.
NeverDisabled(component) == FALSE

\* disabled={isDeleting}, on Cancel and on Delete Forever alike.
Disabled(component) == component.isDeleting

\* catch (error) { ...; setIsDeleting(false); setOpen(false); }
handleDeleteCatch(component) == [component EXCEPT !.isDeleting = FALSE, !.open = FALSE]

InitDialog ==
  /\ variant = "sqlite"
  /\ initialized = TRUE
  /\ LET init == initializeDatabase(variant, {}, 0, 0)
     IN /\ rows = init.rows
        /\ seq = init.seq
        /\ before = init.rows
  /\ now = 0
  /\ updates = 0
  /\ \E projectId \in RaceIds :
       call = [op |-> "DeleteProjectButton", id |-> projectId, input |-> NoCall.input,
               at |-> 0, open |-> FALSE, isDeleting |-> FALSE, mounted |-> TRUE,
               inFlight |-> 0, attempts |-> 0]
  /\ result = NoResult
  /\ deleted = {}

\* The Delete Project trigger, or Escape / a click outside: onOpenChange.
OnOpenChange(open) ==
  /\ call.mounted
  /\ call.open # open
  /\ call' = [call EXCEPT !.open = open]
  /\ UNCHANGED <<variant, initialized, rows, seq, now, updates, before, result, deleted>>

ClickCancel ==
  /\ call.mounted
  /\ call.open
  /\ ~Disabled(call)
  /\ call' = [call EXCEPT !.open = FALSE]
  /\ UNCHANGED <<variant, initialized, rows, seq, now, updates, before, result, deleted>>

\* handleDelete up to its await: setIsDeleting(true), the action is called.
ClickDeleteForever ==
  /\ call.mounted
  /\ call.open
  /\ ~Disabled(call)
  /\ call.attempts < MaxAttempts
  /\ call' = [call EXCEPT !.isDeleting = TRUE, !.inFlight = @ + 1, !.attempts = @ + 1]
  /\ UNCHANGED <<variant, initialized, rows, seq, now, updates, before, result, deleted>>

\* deleteProjectAction runs on the server and settles: a redirect takes the
\* browser to the dashboard and unmounts the component; a returned result
\* ends handleDelete's try block, after which handleDelete is over.
ActionSettles ==
  /\ call.inFlight > 0
  /\ LET a == deleteProjectAction(rows, call.id)
     IN /\ rows' = a.rows
        /\ result' = a.outcome
        /\ deleted' = IF a.outcome.kind = "redirect" THEN deleted \cup {call.id} ELSE deleted
        /\ call' = IF a.outcome.kind = "redirect"
                     THEN [call EXCEPT !.inFlight = @ - 1, !.mounted = FALSE]
                     ELSE [call EXCEPT !.inFlight = @ - 1]
  /\ before' = rows
  /\ UNCHANGED <<variant, initialized, seq, now, updates>>

\* The call rejects (the request does not reach the server, or the action
\* throws): handleDelete's catch block runs.
ActionRejects ==
  /\ call.inFlight > 0
  /\ result' = [kind |-> "thrown", value |-> StorageError, events |-> <<>>]
  /\ call' = [handleDeleteCatch(call) EXCEPT !.inFlight = @ - 1]
  /\ before' = rows
  /\ UNCHANGED <<variant, initialized, rows, seq, now, updates, deleted>>

\* Another session deletes a project.
DeletedElsewhere(id) ==
  /\ HasId(rows, id)
  /\ rows' = deleteProject(rows, id).rows
  /\ deleted' = deleted \cup {id}
  /\ UNCHANGED <<variant, initialized, seq, now, updates, call, before, result>>

NextDialog ==
  \/ \E open \in BOOLEAN : OnOpenChange(open)
  \/ ClickCancel
  \/ ClickDeleteForever
  \/ ActionSettles
  \/ ActionRejects
  \/ \E id \in RaceIds : DeletedElsewhere(id)

SpecDialog == InitDialog /\ [][NextDialog]_vars

\* ------------------------------------------- concurrent update and delete
\* Two callers work on the same project at once: the first updates it, the
\* second updates it too, with any fields, or deletes it.  call and result
\* are per caller as in the specification of concurrent updates.
MixedInputs ==
  RaceInputs \cup { [f \in {"description"} |-> "A new description"],
                    [name |-> "Renamed", isPublic |-> TRUE] }

InitMixed ==
  /\ variant \in Variants
  /\ initialized = TRUE
  /\ LET init == initializeDatabase(variant, {}, 0, 0)
     IN /\ rows = init.rows
        /\ seq = init.seq
        /\ before = init.rows
  /\ now = 0
  /\ updates = 0
  /\ \E id \in RaceIds : \E i1 \in MixedInputs :
       \E second \in { [op |-> "update", input |-> i2] : i2 \in MixedInputs }
                       \cup { [op |-> "delete", input |-> NoCall.input] } :
         call = [p \in Callers |->
                   IF p = 1
                     THEN [op |-> "update", id |-> id, input |-> i1, at |-> 0,
                           pc |-> Statements(variant, "update", i1)[1], commit |-> 0]
                     ELSE [op |-> second.op, id |-> id, input |-> second.input, at |-> 0,
                           pc |-> Statements(variant, second.op, second.input)[1],
                           commit |-> 0]]
  /\ result = [p \in Callers |-> NoResult]
  /\ deleted = {}

\* The DELETE of caller p commits; deleteProject returns changes > 0.
RaceDelete(p) ==
  /\ call[p].pc = "DELETE"
  /\ LET d == deleteProject(rows, call[p].id)
     IN /\ rows' = d.rows
        /\ result' = [result EXCEPT ![p] = d.result]
        /\ deleted' = IF d.result.value THEN deleted \cup {call[p].id} ELSE deleted
  /\ updates' = updates + 1
  /\ call' = [call EXCEPT ![p].pc = "done", ![p].at = now, ![p].commit = updates + 1]
  /\ UNCHANGED <<variant, initialized, seq, now, before>>

NextMixed ==
  \/ Tick
  \/ \E p \in Callers : RaceUpdate(p)
  \/ \E p \in Callers : RaceSelect(p)
  \/ \E p \in Callers : RaceDelete(p)

SpecMixed == InitMixed /\ [][NextMixed]_vars

\* ------------------------------------------------ all seven operations
\* Every operation of the repository on the tables of the query
\* specification, whose texts are sequences of characters so that search
\* can run next to the writes.  At most two projects are created after the
\* seeded ones, which bounds the ids in use.
FrameIds == 1 .. (Len(SeedProjects) + 2)

FrameCreateInputs ==
  { [name |-> <<"z">>, description |-> <<"b", "c">>, category |-> "internal",
     isPublic |-> TRUE] }

FrameUpdateInputs ==
  { [f \in {} |-> 0],
    [f \in {"name"} |-> <<"a", "b">>],
    [f \in {"category"} |-> "marketing"],
    [description |-> <<"C", "a", "B">>, isPublic |-> TRUE] }

CreateProjectAfterSeeds(input) ==
  /\ initialized
  /\ seq < Len(SeedProjects) + 2
  /\ LET c == createProject(variant, rows, seq, now, input)
     IN /\ rows' = c.rows
        /\ seq' = c.seq
        /\ result' = c.result
  /\ call' = [op |-> "create", id |-> 0, input |-> input, at |-> now]
  /\ before' = rows
  /\ UNCHANGED <<variant, initialized, now, updates, deleted>>

NextFrame ==
  \/ GetAllProjects
  \/ \E id \in FrameIds : GetProjectById(id)
  \/ \E query \in {<<"a">>, <<"z">>} : SearchProjects(query)
  \/ \E category \in {"product", "internal"} : GetProjectsByCategory(category)
  \/ \E input \in FrameCreateInputs : CreateProjectAfterSeeds(input)
  \/ \E id \in FrameIds : \E input \in FrameUpdateInputs : UpdateProject(id, input)
  \/ \E id \in FrameIds : DeleteProject(id)

SpecFrame == InitQuery /\ [][NextFrame]_vars

\* ---------------------------------------------------------------- claims
\* A field value as the table holds it.
Stored(v, f, x) == IF f = "isPublic" THEN EncodeBoolean(v, x) ELSE x

UpdateOfExisting == call.op = "update" /\ HasId(before, call.id)

\* C1: update(id, {}) with no field supplied, on an existing project, still
\* writes: the stored and the returned updatedAt are the time of the call,
\* the result is the found record and every other field is unchanged.
C1_NoFieldUpdateRefreshesUpdatedAt ==
  (UpdateOfExisting /\ DOMAIN call.input = {}) =>
    /\ result.kind = "project"
    /\ HasId(rows, call.id)
    /\ RowOf(rows, call.id) = [RowOf(before, call.id) EXCEPT !.updatedAt = call.at]
    /\ result.value = Decode(variant, RowOf(rows, call.id))

C3_CreateRoundTrip ==
  (call.op = "create" /\ call.input.category \in Categories) =>
    /\ result.kind = "project"
    /\ \A f \in Fields : result.value[f] = call.input[f]
    /\ getProjectById(variant, rows, result.value.id) = result

C3_Witness ==
  /\ call.op = "create"
  /\ result.kind = "project"
  /\ call.input.isPublic
  /\ variant = "sqlite"
  /\ RowOf(rows, result.value.id).isPublic = 1

\* C4: create assigns the id itself: the returned id is a positive integer
\* that no project present before the call carries, ids are unique in every
\* reachable state, and the new record has createdAt equal to updatedAt.
C4_CreateAssignsFreshId ==
  /\ \A r1, r2 \in rows : r1.id = r2.id => r1 = r2
  /\ (call.op = "create" /\ result.kind = "project") =>
       /\ result.value.id \in Nat \ {0}
       /\ ~HasId(before, result.value.id)
       /\ HasId(rows, result.value.id)
       /\ result.value.createdAt = result.value.updatedAt
       /\ result.value.createdAt = call.at

C4_Witness ==
  /\ call.op = "create"
  /\ result.kind = "project"
  /\ before # {}
  /\ Cardinality(rows) = Cardinality(before) + 1

\* C5: list() returns every stored project exactly once, ordered by
\* updatedAt descending, and the empty sequence when the store is empty.
C5_ListIsCompleteAndOrdered ==
  call.op = "list" =>
    /\ result.kind = "list"
    /\ Len(result.value) = Cardinality(before)
    /\ { result.value[i] : i \in DOMAIN result.value } = { Decode(variant, r) : r \in before }
    /\ \A i, j \in DOMAIN result.value :
         i < j => result.value[i].updatedAt >= result.value[j].updatedAt
    /\ before = {} => result.value = <<>>

C5_Witness ==
  /\ call.op = "list"
  /\ deleted # {}
  /\ Len(result.value) >= 3
  /\ result.value[1].updatedAt > result.value[Len(result.value)].updatedAt
  /\ result.value[1].id < result.value[Len(result.value)].id

\* C6: delete(id) returns true exactly when a project with that id was
\* present, and that project is then gone (so a delete repeated at once
\* returns false); on an absent id it returns false and does not throw.
C6_DeleteReportsRemoval ==
  /\ [](call.op = "delete" =>
          /\ result.kind = "boolean"
          /\ result.value = HasId(before, call.id)
          /\ rows = { r \in before : r.id # call.id })
  /\ [][\A id \in CallIds :
          (call.op = "delete" /\ call.id = id /\ result.value = TRUE /\ DeleteProject(id))
            => result'.value = FALSE]_vars

C6_Witness ==
  /\ call.op = "delete"
  /\ call.id \in deleted
  /\ result.value = FALSE
  /\ rows = before

\* C7: getById(id) and update(id, fields) on an id with no stored project
\* return the not-found value, and the update creates no row and changes no
\* stored project.
C7_AbsentIdIsNotFound ==
  (call.op \in {"getById", "update"} /\ ~HasId(before, call.id)) =>
    /\ result = NotFound
    /\ rows = before

C7_Witness ==
  /\ call.op = "update"
  /\ ~HasId(before, call.id)
  /\ DOMAIN call.input = {"name", "category", "isPublic"}
  /\ before # {}
  /\ result = NotFound

\* C8: deletion is irreversible: once delete(id) has returned true, no later
\* state holds a project with that id; getById(id) returns not-found and
\* list() contains no project with that id.
C8_DeletionIsIrreversible ==
  /\ \A id \in deleted : ~HasId(rows, id)
  /\ (call.op = "getById" /\ call.id \in deleted) => result = NotFound
  /\ call.op = "list" => \A i \in DOMAIN result.value : result.value[i].id \notin deleted

C8_Witness ==
  /\ call.op = "create"
  /\ result.kind = "project"
  /\ \E id \in deleted : \A r \in rows : r.id # result.value.id => r.id < id

\* C9: every stored project's category is one of the four; a create or
\* update carrying any other category does not succeed and leaves the store
\* unchanged: it fails with the storage's error whenever it reaches a row
\* (create always, update when the id exists), and an update whose id
\* matches no row is not-found.
C9_CategoryIsEnforcedByStorage ==
  /\ \A r \in rows : r.category \in Categories
  /\ (/\ call.op \in {"create", "update"}
      /\ "category" \in DOMAIN call.input
      /\ call.input.category \notin Categories) =>
       /\ rows = before
       /\ result = IF call.op = "create" \/ HasId(before, call.id)
                     THEN StorageError ELSE NotFound

C9_Witness ==
  /\ UpdateOfExisting
  /\ "category" \in DOMAIN call.input
  /\ call.input.category = "bogus"
  /\ result = StorageError

\* C10: each stored project has updatedAt >= createdAt, and a project's
\* createdAt is never changed by a later call (the store clock never goes
\* backwards).
C10_UpdatedAtNotBeforeCreatedAt ==
  /\ \A r \in rows : r.updatedAt >= r.createdAt
  /\ \A r \in rows : \A b \in before : r.id = b.id => r.createdAt = b.createdAt

C10_Witness ==
  /\ UpdateOfExisting
  /\ result.kind = "project"
  /\ result.value.updatedAt > result.value.createdAt

\* text contains query as a substring, without regard to case.
ContainsIgnoringCase(text, query) ==
  \E i \in 0 .. Len(text) :
    /\ i + Len(query) <= Len(text)
    /\ \A k \in 1 .. Len(query) : Fold(text[i + k]) = Fold(query[k])

ListedOnce(expected) ==
  /\ result.kind = "list"
  /\ Len(result.value) = Cardinality(expected)
  /\ { result.value[i] : i \in DOMAIN result.value } = { Decode(variant, r) : r \in expected }

\* C11: search(query) returns exactly the projects whose name or description
\* contains query as a case-insensitive substring, for every query string,
\* those containing % or _ included, and the empty sequence when none does.
C11_SearchIsSubstringMatch ==
  call.op = "search" =>
    ListedOnce({ r \in before : \/ ContainsIgnoringCase(r.name, call.input.query)
                                \/ ContainsIgnoringCase(r.description, call.input.query) })

\* C12: listByCategory(c) returns exactly the stored projects whose category
\* equals c, each once.
C12_ListByCategoryIsExact ==
  call.op = "listByCategory" =>
    /\ ListedOnce({ r \in before : r.category = call.input.category })
    /\ \A i \in DOMAIN result.value : result.value[i].category = call.input.category

C12_Witness ==
  /\ call.op = "listByCategory"
  /\ call.input.category = "marketing"
  /\ Len(result.value) = 1
  /\ Cardinality(before) = 2
  /\ updates = 1

\* C13: a repository operation that meets a storage error (a violated
\* constraint, a failing connection) attempts the statement once, raises
\* that error to its caller as it is, and leaves the stored projects as
\* they were before the call.
C13_StorageErrorLeavesStoreUnchanged ==
  /\ "fault" \in DOMAIN call => result = StorageError
  /\ result = StorageError => rows = before

RaceOver == \A p \in Callers : call[p].pc = "done"

\* C14: when two callers concurrently update the same field of the same
\* existing project, both calls end with a found result and the value
\* stored once both have finished is that of the write committed last.
C14_ConcurrentUpdatesLastWriteWins ==
  RaceOver =>
    /\ \A p \in Callers : result[p].kind = "project"
    /\ \E last \in Callers :
         /\ call[last].commit = Cardinality(Callers)
         /\ \A f \in DOMAIN call[last].input :
              RowOf(rows, call[last].id)[f] = Stored(variant, f, call[last].input[f])

C14_Witness ==
  /\ RaceOver
  /\ call[1].commit = 2
  /\ call[1].input # call[2].input
  /\ variant = "sqlite"
  /\ result[1] = result[2]
  /\ RowOf(rows, call[1].id).updatedAt > RowOf(before, call[1].id).updatedAt

\* The events of the last action that are calls of the named collaborator.
EventsOf(kind) == { i \in DOMAIN result.events : result.events[i].event = kind }

FormAction == call.op \in {"createProjectAction", "updateProjectAction"}

FormIsValid ==
  IF call.op = "createProjectAction"
    THEN createProjectSchema(CreateRawData(call.input)).success
    ELSE updateProjectSchema(UpdateRawData(call.input)).success

\* C15: when the form data submitted to the createProject or updateProject
\* action fails schema validation, the action returns {success: false,
\* errors, message: 'Invalid form data'}, calls no repository function,
\* leaves the store unchanged and neither revalidates nor redirects.
C15_InvalidFormIsRejectedBeforeTheStore ==
  (FormAction /\ ~FormIsValid) =>
    /\ result.kind = "returned"
    /\ result.value.success = FALSE
    /\ result.value.message = "Invalid form data"
    /\ DOMAIN result.value.errors # {}
    /\ \A f \in DOMAIN result.value.errors : result.value.errors[f] # <<>>
    /\ result.events = <<>>
    /\ rows = before

C15_Witness ==
  /\ call.op = "updateProjectAction"
  /\ HasId(before, call.id)
  /\ result.kind = "returned"
  /\ DOMAIN result.value.errors = {"name"}
  /\ "category" \in DOMAIN call.input /\ call.input["category"] = "marketing"
  /\ RowOf(rows, call.id).category # "marketing"

\* The submission the last action handled was carried out by the store.
SuccessfulSubmission ==
  \/ call.op = "createProjectAction" /\ FormIsValid
  \/ call.op = "updateProjectAction" /\ FormIsValid /\ HasId(before, call.id)
  \/ call.op = "deleteProjectAction" /\ HasId(before, call.id)

\* The store holds the mutation the last action asked for.
Committed ==
  CASE call.op = "createProjectAction" ->
         /\ before \subseteq rows
         /\ Cardinality(rows \ before) = 1
    [] call.op = "updateProjectAction" ->
         /\ HasId(rows, call.id)
         /\ RowOf(rows, call.id).updatedAt = call.at
         /\ \A f \in DOMAIN UpdateRawData(call.input) :
              RowOf(rows, call.id)[f] = Stored("sqlite", f, UpdateRawData(call.input)[f])
    [] call.op = "deleteProjectAction" ->
         rows = { r \in before : r.id # call.id }

\* The path the last action has to redirect to.
RedirectTarget ==
  CASE call.op = "createProjectAction" ->
         ProjectPath((CHOOSE r \in rows \ before : TRUE).id)
    [] call.op = "updateProjectAction" -> ProjectPath(call.id)
    [] call.op = "deleteProjectAction" -> "/"

AffectedPaths ==
  IF call.op = "updateProjectAction" THEN {"/", ProjectPath(call.id)} ELSE {"/"}

\* C17: on every successful create, update or delete submission the action
\* first commits the store mutation, then revalidates the affected paths,
\* then redirects (create and update to /projects/{id} of the project
\* written, delete to /), and the redirect leaves the action uncaught.
C17_CommitThenRevalidateThenRedirect ==
  SuccessfulSubmission =>
    /\ Committed
    /\ result.kind = "redirect"
    /\ result.value = RedirectTarget
    /\ EventsOf("repository") = {1}
    /\ EventsOf("redirect") = {Len(result.events)}
    /\ EventsOf("revalidatePath") = 2 .. Len(result.events) - 1
    /\ { result.events[i].arg : i \in EventsOf("revalidatePath") } = AffectedPaths
    /\ result.events[Len(result.events)].arg = RedirectTarget

C17_Witness ==
  /\ call.op = "createProjectAction"
  /\ result.kind = "redirect"
  /\ result.value = "/projects/4"
  /\ HasId(rows, 4)
  /\ Len(result.events) = 3

ActionOnAbsentId ==
  /\ call.op \in {"updateProjectAction", "deleteProjectAction"}
  /\ ~HasId(before, call.id)

ProjectNotFoundReturned ==
  /\ result.kind = "returned"
  /\ result.value = Failure("Project not found")
  /\ EventsOf("revalidatePath") = {}
  /\ EventsOf("redirect") = {}
  /\ rows = before

\* C18 as stated: the updateProject action and deleteProjectAction, called
\* for an id that has no stored project, return {success: false, message:
\* 'Project not found'} and neither revalidate nor redirect.
C18_AbsentIdIsProjectNotFound ==
  ActionOnAbsentId => ProjectNotFoundReturned

\* C18 amended: the updateProject action called with form data that passes
\* validation, and deleteProjectAction, for an id that has no stored
\* project, return {success: false, message: 'Project not found'} and
\* neither revalidate nor redirect; form data that fails validation is
\* answered with 'Invalid form data' whether or not the project exists.
C18_AbsentIdIsProjectNotFoundForValidForm ==
  /\ (ActionOnAbsentId /\ (call.op = "updateProjectAction" => FormIsValid))
       => ProjectNotFoundReturned
  /\ (ActionOnAbsentId /\ call.op = "updateProjectAction" /\ ~FormIsValid)
       => result.value.message = "Invalid form data"

C18_Witness ==
  /\ call.op = "updateProjectAction"
  /\ call.id \in deleted
  /\ FormIsValid
  /\ result.kind = "returned"
  /\ result.value.message = "Project not found"

PageCall == call.op \in {"EditProjectPage", "ProjectPage"}

\* The route id is a decimal numeral: an optional minus sign and digits.
IsNumeral(id) ==
  LET digits == IF id # <<>> /\ Head(id) = "-" THEN Tail(id) ELSE id
  IN digits # <<>> /\ \A i \in DOMAIN digits : IsDigit(digits[i])

NumeralValue(id) ==
  IF Head(id) = "-" THEN 0 - LeadingDigits(Tail(id), 0) ELSE LeadingDigits(id, 0)

\* C16: the project view page and the project edit page answer not-found
\* for a route id that is non-numeric, zero or negative, and for a
\* well-formed id with no stored project; in the non-numeric and the
\* non-positive cases they do so before calling the repository.
C16_PagesGuardTheRouteId ==
  PageCall =>
    IF ~IsNumeral(call.input) \/ NumeralValue(call.input) <= 0
      THEN result.kind = "notFound" /\ EventsOf("repository") = {}
      ELSE ~HasId(before, NumeralValue(call.input)) => result.kind = "notFound"

\* The rows that differ from rs only in being new are the seed projects.
SeedsAdded(rs, new) ==
  /\ rs \subseteq new
  /\ Cardinality(new \ rs) = Len(SeedProjects)
  /\ \A i \in DOMAIN SeedProjects :
       \E r \in new \ rs :
         /\ r.name = SeedProjects[i].name
         /\ r.description = SeedProjects[i].description
         /\ r.category = SeedProjects[i].category
         /\ r.isPublic = EncodeBoolean(variant, SeedProjects[i].isPublic)

\* C19: initializeDatabase inserts the three seed projects only if the
\* projects table is empty at that moment; on a table that already holds
\* a project it inserts, updates and deletes nothing.
C19_SeedsOnlyAnEmptyTable ==
  [][InitializeDatabase =>
       IF rows = {} THEN SeedsAdded(rows, rows') ELSE rows' = rows /\ seq' = seq]_vars

C19_Witness ==
  /\ initialized
  /\ call.op = "restart"
  /\ Cardinality(rows) = 2
  /\ deleted # {}
  /\ \E r \in rows : r.name = "Gamma"

\* C20: seed data is inserted in a transaction: after initialization of an
\* empty table, whether it succeeds or fails part-way, the table holds all
\* three seed projects or none of them, never a partial seed.
C20_SeedIsAllOrNothing ==
  [][(~initialized /\ initialized' /\ rows = {}) =>
       Cardinality(rows') \in {0, Len(SeedProjects)}]_vars

\* The parsed input's field f is a text of a length from lo to hi.
LengthWithin(f, lo, hi) ==
  f \in DOMAIN call.input /\ Len(call.input[f]) >= lo /\ Len(call.input[f]) <= hi

FieldAccepted(f) == f \notin DOMAIN result.value.fieldErrors

\* C21: createProjectSchema accepts a name iff its length is between 3 and
\* 100 inclusive and a description iff its length is between 10 and 500
\* inclusive; updateProjectSchema applies the same bounds to each of these
\* fields whenever the field is present.
C21_SchemaLengthBounds ==
  /\ call.op = "createProjectSchema" =>
       /\ FieldAccepted("name") <=> LengthWithin("name", 3, 100)
       /\ FieldAccepted("description") <=> LengthWithin("description", 10, 500)
  /\ call.op = "updateProjectSchema" =>
       /\ "name" \in DOMAIN call.input =>
            (FieldAccepted("name") <=> LengthWithin("name", 3, 100))
       /\ "description" \in DOMAIN call.input =>
            (FieldAccepted("description") <=> LengthWithin("description", 10, 500))
       /\ "name" \notin DOMAIN call.input => FieldAccepted("name")
       /\ "description" \notin DOMAIN call.input => FieldAccepted("description")

C21_Witness ==
  /\ call.op = "updateProjectSchema"
  /\ "description" \notin DOMAIN call.input
  /\ Len(call.input["name"]) = 100
  /\ result.value.success

\* C22: if initializeDatabase fails, the failure is caught at module load
\* (the initialized promise is fulfilled, not rejected), and every later
\* repository call neither hangs nor rethrows the initialization error: it
\* issues its own query and surfaces what the store then gives.
C22_FailedInitializationIsNotRethrown ==
  /\ [](call[0].pc = "failed" => initialized /\ initializedPromise(call[0].pc) = "fulfilled")
  /\ [](\A c \in Callers :
          (call[c].pc = "done" /\ call[c].settled = "failed") =>
            /\ result[c] # InitializationError
            /\ result[c] = StorageError <=> ~call[0].created)
  /\ \A c \in Callers : (call[c].pc = "await") ~> (call[c].pc = "done")

C22_Witness ==
  /\ call[0].pc = "failed"
  /\ ~call[0].created
  /\ call[1].pc = "done"
  /\ call[1].during = "CREATE TABLE"
  /\ result[1] = StorageError
  /\ call[2].pc = "await"

FailureMessageOf(op) ==
  CASE op = "createProjectAction" -> "Failed to create project. Please try again."
    [] op = "updateProjectAction" -> "Failed to update project. Please try again."
    [] op = "deleteProjectAction" -> "Failed to delete project. Please try again."

\* C24: if the repository call made inside the createProject, updateProject
\* or deleteProjectAction action fails with a storage error, the action
\* catches it and returns {success: false, message} to its caller, and
\* performs neither revalidatePath nor redirect.
C24_ActionsCatchStorageErrors ==
  "fault" \in DOMAIN call =>
    /\ result.kind = "returned"
    /\ result.value = Failure(FailureMessageOf(call.op))
    /\ EventsOf("repository") = {1}
    /\ EventsOf("revalidatePath") = {}
    /\ EventsOf("redirect") = {}

C24_Witness ==
  /\ "fault" \in DOMAIN call
  /\ call.op = "updateProjectAction"
  /\ call.fault = "SELECT"
  /\ rows # before
  /\ result.kind = "returned"
  /\ ~result.value.success

\* C25: in DeleteProjectButton, from the click on Delete Forever until
\* deleteProjectAction settles, isDeleting is true and both the Cancel and
\* the Delete Forever button are disabled, so at most one
\* deleteProjectAction call per dialog is in flight at any time.
C25_OneDeleteInFlight ==
  /\ call.inFlight <= 1
  /\ call.inFlight = 1 => call.isDeleting /\ Disabled(call)

C25_Witness ==
  /\ call.inFlight = 1
  /\ call.attempts = 2
  /\ call.open
  /\ call.isDeleting
  /\ result.kind = "thrown"

\* C26: in DeleteProjectButton, every delete attempt that ends without a
\* redirect, whether deleteProjectAction throws or returns a failure
\* result, brings the dialog back to an interactive state with isDeleting
\* false.  handleDelete has no continuation after its try statement, so
\* what it has not reset when the call has settled is never reset.
C26_FailedAttemptRestoresDialog ==
  (call.mounted /\ call.attempts > 0 /\ call.inFlight = 0) => ~call.isDeleting

\* C27: the updateProject action always supplies isPublic to the
\* repository: after a successful update submission the stored isPublic is
\* true iff the form's isPublic value is 'on' or 'true', so a submission
\* without an isPublic field sets isPublic to false.
C27_UpdateActionAlwaysWritesIsPublic ==
  (call.op = "updateProjectAction" /\ FormIsValid /\ HasId(before, call.id)) =>
    /\ result.kind = "redirect"
    /\ RowOf(rows, call.id).isPublic =
         EncodeBoolean("sqlite", /\ "isPublic" \in DOMAIN call.input
                                 /\ call.input["isPublic"] \in {"on", "true"})

C27_Witness ==
  /\ call.op = "updateProjectAction"
  /\ result.kind = "redirect"
  /\ "isPublic" \notin DOMAIN call.input
  /\ RowOf(before, call.id).isPublic = EncodeBoolean("sqlite", TRUE)
  /\ RowOf(rows, call.id).isPublic = EncodeBoolean("sqlite", FALSE)

\* C28: two concurrent repository updates of the same existing project that
\* supply disjoint field sets both take effect: once both have completed
\* the project carries both new values, whichever write commits first.
C28_DisjointUpdatesBothTakeEffect ==
  (/\ RaceOver
   /\ \A p \in Callers : call[p].op = "update"
   /\ DOMAIN call[1].input \cap DOMAIN call[2].input = {}) =>
    /\ \A p \in Callers : result[p].kind = "project"
    /\ \A p \in Callers : \A f \in DOMAIN call[p].input :
         RowOf(rows, call[p].id)[f] = Stored(variant, f, call[p].input[f])

C28_Witness ==
  /\ RaceOver
  /\ DOMAIN call[1].input = {"name", "isPublic"}
  /\ DOMAIN call[2].input = {"description"}
  /\ call[1].commit = 2
  /\ RowOf(rows, call[1].id).name = "Renamed"
  /\ RowOf(rows, call[1].id).description = "A new description"

\* C29: when update(id, fields) and delete(id) run concurrently on an
\* existing project, in every interleaving the project is absent once both
\* have completed: update never re-creates a deleted row, and delete
\* returns true.
C29_UpdateNeverRevivesDeleted ==
  (RaceOver /\ call[2].op = "delete") =>
    /\ ~HasId(rows, call[2].id)
    /\ result[2] = Bool(TRUE)
    /\ rows = { r \in before : r.id # call[2].id }

C29_Witness ==
  /\ RaceOver
  /\ call[2].op = "delete"
  /\ call[2].commit = 1
  /\ call[1].commit = 2
  /\ result[1] = NotFound
  /\ ~HasId(rows, call[1].id)

\* C30: update(id, fields) and delete(id) change no project other than the
\* one with that id, create changes no existing project, and list, getById,
\* search and listByCategory change no project at all.
C30_OperationsTouchOnlyTheirProject ==
  /\ call.op \in {"update", "delete"} =>
       { r \in rows : r.id # call.id } = { r \in before : r.id # call.id }
  /\ call.op = "create" =>
       /\ before \subseteq rows
       /\ \A r \in rows \ before : ~HasId(before, r.id)
  /\ call.op \in {"list", "getById", "search", "listByCategory"} => rows = before

C30_Witness ==
  /\ call.op = "delete"
  /\ Cardinality(before) = 2
  /\ Cardinality(rows) = 1
  /\ \E r \in rows : r.id > call.id

C30_WitnessCreate ==
  /\ call.op = "create"
  /\ Cardinality(before) = 1
  /\ Cardinality(rows) = 2

C30_WitnessSearch ==
  /\ call.op = "search"
  /\ result.kind = "list"
  /\ Cardinality(rows) = 2

====
